---- MODULE Spec2Model ----
(***************************************************************************)
(* Model of src/bot.py: a Telegram bot that appends task rows to the Logs  *)
(* worksheet of a Google Sheet and reads the Summary and Logs worksheets   *)
(* to answer /status, /clients and /projects.                              *)
(*                                                                         *)
(* A Python str is a sequence of one-character strings, a worksheet is a   *)
(* sequence of rows, a row a sequence of cells (get_all_values()).         *)
(***************************************************************************)
EXTENDS Integers, Sequences, FiniteSets, TLC

\* summary, logs: the two worksheets; last: the command handled last, with
\* what its store calls returned; replies: the reply_text calls it made;
\* hist: the Logs sheet at start and the /log commands written since
VARIABLES summary, logs, last, replies, hist

vars == <<summary, logs, last, replies, hist>>

(***************************************************************************)
(* Bounds of the model.                                                    *)
(***************************************************************************)
\* rows a run of /log commands may append to the Logs sheet
MaxLogs == 2
\* data rows of the Summary sheet drawn in InitRead
MaxSummaryRows == 2

(***************************************************************************)
(* Python str primitives.                                                  *)
(***************************************************************************)
\* ord(ch) for the characters the model uses
Ord(ch) ==
  CASE ch = " " -> 32
    [] ch = "+" -> 43
    [] ch = "-" -> 45
    [] ch = "." -> 46
    [] ch = "0" -> 48
    [] ch = "1" -> 49
    [] ch = "2" -> 50
    [] ch = "3" -> 51
    [] ch = "7" -> 55
    [] ch = "A" -> 65
    [] ch = "B" -> 66
    [] ch = "P" -> 80
    [] ch = "Q" -> 81
    [] ch = "a" -> 97
    [] ch = "b" -> 98
    [] ch = "d" -> 100
    [] ch = "e" -> 101
    [] ch = "p" -> 112
    [] ch = "q" -> 113
    [] ch = "x" -> 120
    [] ch = "|" -> 124
    [] OTHER -> 0

IsSpace(ch) == ch = " "

IsDigit(ch) == ch \in {"0", "1", "2", "3", "7"}

DigitVal(ch) == Ord(ch) - 48

\* str.lower() on one character
LowerCh(ch) ==
  CASE ch = "A" -> "a"
    [] ch = "B" -> "b"
    [] ch = "P" -> "p"
    [] ch = "Q" -> "q"
    [] OTHER -> ch

\* str.lower()
Lower(s) == [i \in 1..Len(s) |-> LowerCh(s[i])]

RECURSIVE LStrip(_)
\* str.lstrip()
LStrip(s) == IF s # <<>> /\ IsSpace(Head(s)) THEN LStrip(Tail(s)) ELSE s

RECURSIVE RStrip(_)
\* str.rstrip()
RStrip(s) ==
  IF s # <<>> /\ IsSpace(s[Len(s)]) THEN RStrip(SubSeq(s, 1, Len(s) - 1)) ELSE s

\* str.strip()
Strip(s) == RStrip(LStrip(s))

RECURSIVE Split(_, _)
\* str.split(sep) for a one-character separator: always at least one part
Split(s, sep) ==
  IF \E i \in 1..Len(s) : s[i] = sep
  THEN LET i == CHOOSE k \in 1..Len(s) :
                  s[k] = sep /\ \A j \in 1..(k - 1) : s[j] # sep
       IN  <<SubSeq(s, 1, i - 1)>> \o Split(SubSeq(s, i + 1, Len(s)), sep)
  ELSE <<s>>

RECURSIVE Join(_, _)
\* sep.join(parts)
Join(sep, parts) ==
  IF parts = <<>> THEN <<>>
  ELSE IF Len(parts) = 1 THEN parts[1]
  ELSE parts[1] \o sep \o Join(sep, Tail(parts))

RECURSIVE StrLess(_, _)
\* s < t for Python str: lexicographic on code points
StrLess(s, t) ==
  IF t = <<>> THEN FALSE
  ELSE IF s = <<>> THEN TRUE
  ELSE IF Ord(Head(s)) # Ord(Head(t)) THEN Ord(Head(s)) < Ord(Head(t))
  ELSE StrLess(Tail(s), Tail(t))

RECURSIVE Sorted(_)
\* sorted(set of str)
Sorted(S) ==
  IF S = {} THEN <<>>
  ELSE LET m == CHOOSE x \in S : \A y \in S \ {x} : StrLess(x, y)
       IN  <<m>> \o Sorted(S \ {m})

RECURSIVE DigitsVal(_, _)
DigitsVal(s, acc) ==
  IF s = <<>> THEN acc ELSE DigitsVal(Tail(s), acc * 10 + DigitVal(Head(s)))

AllDigits(s) == s # <<>> /\ \A i \in 1..Len(s) : IsDigit(s[i])

\* an optional value: None or Some(v)
None == [some |-> FALSE, val |-> 0]
Some(v) == [some |-> TRUE, val |-> v]

\* int(s) inside try/except ValueError: the value, or None on ValueError
ParseInt(s) ==
  LET t == Strip(s)
      signed == t # <<>> /\ Head(t) \in {"+", "-"}
      body == IF signed THEN Tail(t) ELSE t
  IN  IF AllDigits(body)
      THEN Some(IF signed /\ Head(t) = "-" THEN 0 - DigitsVal(body, 0)
                ELSE DigitsVal(body, 0))
      ELSE None

(***************************************************************************)
(* The spreadsheet: book.summary and book.logs are the two worksheets.     *)
(***************************************************************************)
RECURSIVE DropZeros(_)
DropZeros(s) == IF Len(s) > 1 /\ Head(s) = "0" THEN DropZeros(Tail(s)) ELSE s

\* what a cell written with value_input_option="USER_ENTERED" reads back as:
\* text that is a number is stored as the number ("07" reads back "7")
UserEntered(s) == IF AllDigits(s) THEN DropZeros(s) ELSE s

\* Worksheet.append_row(values, value_input_option="USER_ENTERED")
AppendRow(ws, values) ==
  Append(ws, [i \in 1..Len(values) |-> UserEntered(values[i])])

\* Worksheet.get_all_values(): the rows of the sheet, each filled with empty
\* cells to the width of the widest row; [] for a blank sheet
GetAllValues(ws) ==
  LET width == IF ws = <<>> THEN 0
               ELSE CHOOSE w \in {Len(ws[i]) : i \in 1..Len(ws)} :
                      \A i \in 1..Len(ws) : Len(ws[i]) <= w
  IN  [i \in 1..Len(ws) |->
         [j \in 1..width |-> IF j <= Len(ws[i]) THEN ws[i][j] ELSE <<>>]]

\* datetime.now(ist).strftime(...): the wall clock, abstracted to one instant
Timestamps == {<<"2", "0", "-", "0", "1">>}

\* log_to_sheet with an insert below the header (mutant)
LogToSheetInsert(book, username, client, project, description, ts) ==
  LET row == [i \in 1..5 |->
                UserEntered(<<ts, username, client, project, description>>[i])]
  IN  [book EXCEPT !.logs =
         IF book.logs = <<>> THEN <<row>>
         ELSE <<Head(book.logs)>> \o <<row>> \o Tail(book.logs)]

\* log_to_sheet that also creates the pair's Summary row (mutant)
LogToSheetBoth(book, username, client, project, description, ts) ==
  [summary |-> Append(book.summary, <<client, project, <<>>, <<>>, <<>> >>),
   logs |-> AppendRow(book.logs, <<ts, username, client, project, description>>)]

\* log_to_sheet: the spreadsheet after the call
LogToSheet(book, username, client, project, description, ts) ==
  [book EXCEPT !.logs =
     AppendRow(book.logs, <<ts, username, client, project, description>>)]

\* the (completed, total, percentage) triple, or an exception leaving the function
Result(completed, total, percentage) ==
  [raised |-> FALSE, completed |-> completed, total |-> total,
   percentage |-> percentage, items |-> <<>>]
Raised ==
  [raised |-> TRUE, completed |-> None, total |-> None, percentage |-> None,
   items |-> <<>>]
Items(xs) ==
  [raised |-> FALSE, completed |-> None, total |-> None, percentage |-> None,
   items |-> xs]
NoResult == Items(<<>>)

\* row[0] and row[1] compared case-sensitively (mutant)
RowMatchesExact(row, client_lower, project_lower) ==
  /\ Len(row) >= 3
  /\ Strip(row[1]) = client_lower
  /\ Strip(row[2]) = project_lower

\* lines 116-120: the Summary row is the (client, project) row
RowMatches(row, client_lower, project_lower) ==
  /\ Len(row) >= 3
  /\ Lower(Strip(row[1])) = client_lower
  /\ Lower(Strip(row[2])) = project_lower

\* lines 122-127: total_tasks of the matching row
TotalTasks(row) ==
  LET tasks_str == Strip(row[3])
  IN  IF tasks_str # <<>> THEN ParseInt(tasks_str) ELSE None

\* "if total_tasks is None or total_tasks < 0" in place of line 134 (mutant)
TasksNotDefinedZeroPasses(total_tasks) ==
  \/ ~total_tasks.some
  \/ total_tasks.val < 0

\* line 134: not total_tasks or total_tasks <= 0
TasksNotDefined(total_tasks) ==
  \/ ~total_tasks.some
  \/ total_tasks.val = 0
  \/ total_tasks.val <= 0

\* lines 142-149: Logs rows after the header that name the pair
CountCompleted(log_rows, client_lower, project_lower) ==
  Cardinality({i \in 2..Len(log_rows) :
                 /\ Len(log_rows[i]) >= 4
                 /\ Lower(Strip(log_rows[i][3])) = client_lower
                 /\ Lower(Strip(log_rows[i][4])) = project_lower})

\* (completed / total_tasks) * 100 in tenths of a percent, as "{:.1f}" prints it
Percentage(completed, total_tasks) ==
  LET n == completed * 1000
      q == n \div total_tasks
      r == n % total_tasks
  IN  IF 2 * r > total_tasks \/ (2 * r = total_tasks /\ q % 2 = 1)
      THEN q + 1 ELSE q

\* compute_project_status; fail names the store call that raises, if any
ComputeProjectStatus(book, client, project, fail) ==
  IF fail = "summary" THEN Raised
  ELSE
    LET summary_rows == GetAllValues(book.summary)
        client_lower == Lower(Strip(client))
        project_lower == Lower(Strip(project))
        hits == {i \in 2..Len(summary_rows) :
                   RowMatches(summary_rows[i], client_lower, project_lower)}
        row_index == IF hits = {} THEN None
                     ELSE Some(CHOOSE i \in hits : \A j \in hits : i <= j)
        total_tasks == IF row_index.some
                       THEN TotalTasks(summary_rows[row_index.val]) ELSE None
    IN  IF ~row_index.some THEN Result(None, None, None)
        ELSE IF TasksNotDefined(total_tasks) THEN Result(Some(0), None, None)
        ELSE IF fail = "logs" THEN Raised
        ELSE LET completed ==
                   CountCompleted(GetAllValues(book.logs), client_lower,
                                  project_lower)
                 percentage ==
                   IF total_tasks.val # 0
                   THEN Some(Percentage(completed, total_tasks.val)) ELSE None
             IN  Result(Some(completed), total_tasks, percentage)

\* lines 162-170: the set of stripped, non-empty Client cells
ClientCells(rows) ==
  {Strip(rows[i][1]) : i \in {j \in 2..Len(rows) : Len(rows[j]) >= 1}} \ {<<>>}

\* list_all_clients
ListAllClients(book, fail) ==
  IF fail THEN Raised
  ELSE Items(Sorted(ClientCells(GetAllValues(book.summary))))

\* projects.add(row_project) for every row, whatever its client (mutant)
ProjectCellsAnyClient(rows, client_lower) ==
  {Strip(rows[i][2]) : i \in {j \in 2..Len(rows) : Len(rows[j]) >= 2}} \ {<<>>}

\* lines 182-191: the stripped, non-empty Project cells of the client's rows
ProjectCells(rows, client_lower) ==
  {Strip(rows[i][2]) :
     i \in {j \in 2..Len(rows) :
              Len(rows[j]) >= 2 /\ Lower(Strip(rows[j][1])) = client_lower}}
  \ {<<>>}

\* list_projects_for_client
ListProjectsForClient(book, client, fail) ==
  IF fail THEN Raised
  ELSE Items(Sorted(ProjectCells(GetAllValues(book.summary),
                                 Lower(Strip(client)))))

(***************************************************************************)
(* Telegram handlers.  A handler's outcome: the spreadsheet after it, the  *)
(* reply_text calls it made, whether an exception left it, and what the    *)
(* helper it called returned.                                              *)
(***************************************************************************)
Reply(kind) ==
  [kind |-> kind, client |-> <<>>, project |-> <<>>, completed |-> 0,
   total |-> 0, pct |-> None, items |-> <<>>]

Outcome(book, rs, result) ==
  [book |-> book, replies |-> rs, raised |-> FALSE, result |-> result,
   written |-> <<>>]

\* a handler without its try/except: the exception leaves it (mutant)
OnStoreErrorPropagate(book, kind) ==
  [book |-> book, replies |-> <<>>, raised |-> TRUE, result |-> Raised,
   written |-> <<>>]

\* the except Exception blocks: one error text, then return
OnStoreError(book, kind) ==
  [book |-> book, replies |-> <<Reply(kind)>>, raised |-> FALSE,
   result |-> Raised, written |-> <<>>]

\* full_text = " ".join(context.args); parts = [p.strip() for p in split("|")]
Parts(args) ==
  LET raw == Split(Join(<<" ">>, args), "|")
  IN  [i \in 1..Len(raw) |-> Strip(raw[i])]

\* "if len(parts) < 2" in place of line 257 (mutant)
TooFewLogPartsTwo(parts) == Len(parts) < 2

\* line 257
TooFewLogParts(parts) == Len(parts) < 3

\* line 269: user.username or "<first_name> <last_name>".strip()
Username(user) ==
  IF user.username # <<>> THEN user.username
  ELSE Strip(user.first_name \o <<" ">> \o user.last_name)

\* log_cmd
LogCmdRun(book, args, user, ts, fail) ==
  IF args = <<>> THEN Outcome(book, <<Reply("log_usage")>>, NoResult)
  ELSE
    LET parts == Parts(args)
    IN  IF TooFewLogParts(parts)
        THEN Outcome(book, <<Reply("log_need_3_parts")>>, NoResult)
        ELSE
          LET client == parts[1]
              project == parts[2]
              description ==
                Strip(Join(<<"|">>, SubSeq(parts, 3, Len(parts))))
          IN  IF fail THEN OnStoreError(book, "log_store_error")
              ELSE [Outcome(LogToSheet(book, Username(user), client, project,
                                       description, ts),
                            <<[Reply("log_ok") EXCEPT !.client = client,
                                                      !.project = project]>>,
                            NoResult)
                      EXCEPT !.written = <<[client |-> client,
                                            project |-> project]>>]

\* status_cmd
StatusCmdRun(book, args, fail) ==
  IF args = <<>> THEN Outcome(book, <<Reply("status_usage")>>, NoResult)
  ELSE
    LET parts == Parts(args)
    IN  IF Len(parts) < 2
        THEN Outcome(book, <<Reply("status_need_2_parts")>>, NoResult)
        ELSE
          LET client == parts[1]
              project == parts[2]
              r == ComputeProjectStatus(book, client, project, fail)
          IN  IF r.raised THEN OnStoreError(book, "status_store_error")
              ELSE IF ~r.total.some
              THEN Outcome(book,
                     <<[Reply("status_not_found") EXCEPT !.client = client,
                                                         !.project = project]>>,
                     r)
              ELSE IF r.total.val = 0
              THEN Outcome(book, <<Reply("status_tasks_not_set")>>, r)
              ELSE Outcome(book,
                     <<[Reply("status_report") EXCEPT
                          !.client = client, !.project = project,
                          !.completed = r.completed.val, !.total = r.total.val,
                          !.pct = r.percentage]>>,
                     r)

\* clients_cmd
ClientsCmdRun(book, fail) ==
  LET r == ListAllClients(book, fail)
  IN  IF r.raised THEN OnStoreError(book, "clients_store_error")
      ELSE IF r.items = <<>> THEN Outcome(book, <<Reply("clients_none")>>, r)
      ELSE Outcome(book, <<[Reply("clients_list") EXCEPT !.items = r.items]>>, r)

\* projects_cmd
ProjectsCmdRun(book, args, fail) ==
  IF args = <<>> THEN Outcome(book, <<Reply("projects_usage")>>, NoResult)
  ELSE
    LET client == Strip(Join(<<" ">>, args))
        r == ListProjectsForClient(book, client, fail)
    IN  IF r.raised THEN OnStoreError(book, "projects_store_error")
        ELSE IF r.items = <<>>
        THEN Outcome(book,
               <<[Reply("projects_none") EXCEPT !.client = client]>>, r)
        ELSE Outcome(book,
               <<[Reply("projects_list") EXCEPT !.client = client,
                                                !.items = r.items]>>, r)

(***************************************************************************)
(* Sheets and inputs the runs draw from.                                   *)
(***************************************************************************)
SummaryHeader ==
  << <<"C", "l", "i", "e", "n", "t">>, <<"P", "r", "o", "j", "e", "c", "t">>,
     <<"T", "a", "s", "k", "s">>, <<"C", "o", "m", "p", "l", "e", "t", "e", "d">>,
     <<"S", "t", "a", "t", "u", "s">> >>

LogsHeader ==
  << <<"T", "i", "m", "e", "s", "t", "a", "m", "p">>,
     <<"U", "s", "e", "r", "n", "a", "m", "e">>,
     <<"C", "l", "i", "e", "n", "t">>, <<"P", "r", "o", "j", "e", "c", "t">>,
     <<"D", "e", "s", "c", "r", "i", "p", "t", "i", "o", "n">> >>

\* a Summary sheet that has the Client and Project columns only
NarrowHeader == SubSeq(SummaryHeader, 1, 2)

\* Summary data rows, Client, Project, Tasks, as the store returns them:
\* without the empty cells that end a row
SummaryRowKinds ==
  { << <<"a">>, <<"p">>, <<"2">> >>,
    << <<" ", "A">>, <<"P", " ">>, <<"+", "3">> >>,
    << <<"A">>, <<"q">>, <<"x">> >>,
    << <<"b">>, <<"q">>, <<"0">> >>,
    << <<"b">>, <<"p">>, <<"-", "1">> >>,
    << <<>>, <<"q">> >>,
    << <<"7">>, <<"p">>, <<" ", "2", " ">> >>,
    << <<"a">>, <<"q">> >>,
    << <<"b">> >>,
    << >> }

RECURSIVE Sheets(_, _, _)
\* the sheets of at most n data rows under header
Sheets(header, kinds, n) ==
  IF n = 0 THEN {<<header>>}
  ELSE LET shorter == Sheets(header, kinds, n - 1)
       IN  shorter \cup {Append(sh, r) : sh \in shorter, r \in kinds}

\* the blank sheet, the sheets with the documented columns, and the sheets
\* in which only the Client and Project columns are filled
ReadSummaries ==
  {<<>>}
  \cup Sheets(SummaryHeader, SummaryRowKinds, MaxSummaryRows)
  \cup Sheets(NarrowHeader, {r \in SummaryRowKinds : Len(r) <= 2},
             MaxSummaryRows)

WriteSummaries ==
  { <<SummaryHeader>>,
    <<SummaryHeader, << <<"a">>, <<"p">>, <<"2">> >> >>,
    <<SummaryHeader, << <<" ", "A">>, <<"P", " ">>, <<"+", "3">> >>,
                     << <<"b">>, <<"q">>, <<"0">> >> >>,
    <<SummaryHeader, << <<"7">>, <<"p">>, <<"2">> >> >> }

\* Logs sheets at start: blank, header only, header and earlier rows
InitLogs ==
  { <<>>,
    <<LogsHeader>>,
    <<LogsHeader,
      << <<"2", "0", "-", "0", "1">>, <<"q", "a">>, <<"a">>, <<"p">>, <<"d">> >>,
      << <<"2", "0", "-", "0", "1">>, <<"A">>, <<" ", "A">>, <<"P">> >>,
      << <<"2", "0", "-", "0", "1">>, <<"q", "a">>, <<"a">> >> >> }

\* update.effective_user: with a username, and with a first name only
Users ==
  { [username |-> <<"A">>, first_name |-> <<"a">>, last_name |-> <<"B">>],
    [username |-> <<>>, first_name |-> <<"A">>, last_name |-> <<>>] }

\* context.args of /log: the message text after the command, split on spaces
LogArgs ==
  { <<>>,
    << <<"a">> >>,
    << <<"a", "|", "p">> >>,
    << <<"a">>, <<"|">>, <<"p">>, <<"|">>, <<"d">> >>,
    << <<"A", "|", "P", "|", "d", "|", "e">> >>,
    << <<"0", "7", "|", "p", "|", "d">> >>,
    << <<"b", "|", "q", "|">> >> }

\* context.args of /status
StatusArgs ==
  { <<>>,
    << <<"a">> >>,
    << <<"a", "|", "p">> >>,
    << <<"A">>, <<"|">>, <<"P">> >>,
    << <<"a", "|", "q">> >>,
    << <<"b", "|", "q", "|", "x">> >>,
    << <<"b", "|", "p">> >>,
    << <<"7", "|", "p">> >> }

\* context.args of /projects
ProjectsArgs == { <<>>, << <<"a">> >>, << <<"A">> >>, << <<"b">> >>, << <<"x">> >> }

\* the store call of /status that raises
StatusFails == {"none", "summary", "logs"}

NoCommand ==
  [cmd |-> "none", args |-> <<>>, failed |-> FALSE, raised |-> FALSE,
   result |-> NoResult]

Book == [summary |-> summary, logs |-> logs]

\* what last records of a handler that ran with outcome o
LastOf(cmd, args, o) ==
  [cmd |-> cmd, args |-> args, failed |-> o.result.raised, raised |-> o.raised,
   result |-> o.result]

(***************************************************************************)
(* Initial states and the commands.                                        *)
(***************************************************************************)
Init ==
  /\ summary \in WriteSummaries
  /\ logs \in InitLogs
  /\ last = NoCommand
  /\ replies = <<>>
  /\ hist = [logs0 |-> logs, written |-> <<>>]

InitRead ==
  /\ summary \in ReadSummaries
  /\ logs \in InitLogs
  /\ last = NoCommand
  /\ replies = <<>>
  /\ hist = [logs0 |-> logs, written |-> <<>>]

\* /start
Start ==
  /\ replies' = <<Reply("welcome")>>
  /\ last' = LastOf("start", <<>>, Outcome(Book, replies', NoResult))
  /\ UNCHANGED <<summary, logs, hist>>

\* /help
HelpCmd ==
  /\ replies' = <<Reply("help")>>
  /\ last' = LastOf("help", <<>>, Outcome(Book, replies', NoResult))
  /\ UNCHANGED <<summary, logs, hist>>

\* /log <args> from user at ts; fail: the store call raises
LogCmd ==
  \E args \in LogArgs, user \in Users, ts \in Timestamps,
     fail \in (IF Len(hist.written) < MaxLogs THEN BOOLEAN ELSE {TRUE}) :
    \E o \in {LogCmdRun(Book, args, user, ts, fail)} :
        /\ summary' = o.book.summary
        /\ logs' = o.book.logs
        /\ replies' = o.replies
        /\ last' = LastOf("log", args, o)
        /\ hist' = [hist EXCEPT !.written = hist.written \o o.written]

\* /status <args>; fail: the store call that raises, if any
StatusCmd ==
  \E args \in StatusArgs, fail \in StatusFails :
    \E o \in {StatusCmdRun(Book, args, fail)} :
        /\ summary' = o.book.summary
        /\ logs' = o.book.logs
        /\ replies' = o.replies
        /\ last' = LastOf("status", args, o)
        /\ UNCHANGED hist

\* /clients
ClientsCmd ==
  \E fail \in BOOLEAN :
    \E o \in {ClientsCmdRun(Book, fail)} :
        /\ summary' = o.book.summary
        /\ logs' = o.book.logs
        /\ replies' = o.replies
        /\ last' = LastOf("clients", <<>>, o)
        /\ UNCHANGED hist

\* /projects <args>
ProjectsCmd ==
  \E args \in ProjectsArgs, fail \in BOOLEAN :
    \E o \in {ProjectsCmdRun(Book, args, fail)} :
        /\ summary' = o.book.summary
        /\ logs' = o.book.logs
        /\ replies' = o.replies
        /\ last' = LastOf("projects", args, o)
        /\ UNCHANGED hist

Next == Start \/ HelpCmd \/ LogCmd \/ StatusCmd \/ ClientsCmd \/ ProjectsCmd

Spec == Init /\ [][Next]_vars

NextRead == StatusCmd \/ ClientsCmd \/ ProjectsCmd

SpecRead == InitRead /\ [][NextRead]_vars

(***************************************************************************)
(* Vocabulary of the claims.                                               *)
(***************************************************************************)
\* the number of '|'-separated parts of the text of args
NumParts(args) ==
  LET text == Join(<<" ">>, args)
  IN  1 + Cardinality({i \in 1..Len(text) : text[i] = "|"})

\* s and t are equal after trimming and lower-casing
SameName(s, t) == Lower(Strip(s)) = Lower(Strip(t))

\* the (client, project) a /status or /log text names
QueryClient(args) == Parts(args)[1]
QueryProject(args) == Parts(args)[2]

\* the data rows of the sheet ws, as read, that have at least n cells and
\* name the pair in the cells at positions ci and pi
PairRows(ws, n, ci, pi, client, project) ==
  LET sheet == GetAllValues(ws)
  IN  {i \in 2..Len(sheet) :
         /\ Len(sheet[i]) >= n
         /\ SameName(sheet[i][ci], client)
         /\ SameName(sheet[i][pi], project)}

\* s is the text of an integer greater than zero
IsPositiveIntText(s) ==
  LET t == Strip(s)
      body == IF t # <<>> /\ Head(t) = "+" THEN Tail(t) ELSE t
  IN  /\ body # <<>>
      /\ \A i \in 1..Len(body) : IsDigit(body[i])
      /\ \E i \in 1..Len(body) : body[i] # "0"

LogWritten == last.cmd = "log" /\ Len(replies) = 1 /\ replies[1].kind = "log_ok"
StatusAnswered ==
  last.cmd = "status" /\ NumParts(last.args) >= 2 /\ last.args # <<>>
  /\ ~last.failed

(***************************************************************************)
(* C1.  The completed count /status reports for a pair whose Summary row   *)
(* has a positive integer Tasks value is the number of Logs data rows for  *)
(* the pair present at the start plus the number of /log commands written  *)
(* since for that pair (trimmed, lower-cased); a duplicate counts twice.   *)
(***************************************************************************)
C1_StatusCountsEveryLog ==
  (StatusAnswered /\ last.result.total.some) =>
    LET c == QueryClient(last.args)
        p == QueryProject(last.args)
    IN  last.result.completed.val =
          Cardinality(PairRows(hist.logs0, 4, 3, 4, c, p))
          + Cardinality({k \in 1..Len(hist.written) :
                           /\ SameName(hist.written[k].client, c)
                           /\ SameName(hist.written[k].project, p)})

(***************************************************************************)
(* C2.  A /log command appends exactly one row to Logs and replies with    *)
(* the success confirmation if and only if its text has at least 3         *)
(* '|'-separated parts and the store append succeeds; otherwise it         *)
(* appends no row and sends no success confirmation.                       *)
(***************************************************************************)
C2_LogAppendsIffValidAndStored ==
  [][last'.cmd = "log" =>
       LET ok == /\ last'.args # <<>>
                 /\ NumParts(last'.args) >= 3
                 /\ ~last'.failed
           confirmed == \E k \in 1..Len(replies') : replies'[k].kind = "log_ok"
       IN  /\ ok => /\ Len(logs') = Len(logs) + 1
                    /\ SubSeq(logs', 1, Len(logs)) = logs
                    /\ confirmed
           /\ ~ok => /\ logs' = logs
                     /\ ~confirmed]_vars

C2_Witness ==
  /\ LogWritten
  /\ NumParts(last.args) = 4
  /\ Len(logs) = Len(hist.logs0) + 2

(***************************************************************************)
(* C3 as stated.  After a successful /log for a pair that has no row in    *)
(* Summary, Summary holds exactly one row for that pair.                   *)
(***************************************************************************)
C3_SummaryRowCreated ==
  [][(/\ last'.cmd = "log"
      /\ Len(logs') = Len(logs) + 1
      /\ PairRows(summary, 2, 1, 2, QueryClient(last'.args),
                  QueryProject(last'.args)) = {})
     => Cardinality(PairRows(summary', 2, 1, 2, QueryClient(last'.args),
                             QueryProject(last'.args))) = 1]_vars

(***************************************************************************)
(* C3 as amended.  After a successful /log for a pair that has no row in   *)
(* Summary, Summary is unchanged and still has no row for the pair: the    *)
(* report is persisted only as one new row at the end of Logs, whose       *)
(* Client and Project cells are the pair as the sheet stores it.           *)
(***************************************************************************)
C3_SummaryUntouchedByLog ==
  [][(/\ last'.cmd = "log"
      /\ Len(logs') = Len(logs) + 1
      /\ PairRows(summary, 2, 1, 2, QueryClient(last'.args),
                  QueryProject(last'.args)) = {})
     => /\ summary' = summary
        /\ PairRows(summary', 2, 1, 2, QueryClient(last'.args),
                    QueryProject(last'.args)) = {}
        /\ SubSeq(logs', 1, Len(logs)) = logs
        /\ logs'[Len(logs')][3] = UserEntered(QueryClient(last'.args))
        /\ logs'[Len(logs')][4] = UserEntered(QueryProject(last'.args))]_vars

C3_Witness ==
  /\ LogWritten
  /\ Len(logs) = Len(hist.logs0) + 1
  /\ PairRows(summary, 2, 1, 2, QueryClient(last.args),
              QueryProject(last.args)) = {}

(***************************************************************************)
(* C4.  Logs is append-only: every command leaves the rows already in      *)
(* Logs where they are, with the same cells, and the only change is one    *)
(* new row at the end, made by a successful /log.                          *)
(***************************************************************************)
C4_LogsAppendOnly ==
  [][/\ Len(logs') >= Len(logs)
     /\ SubSeq(logs', 1, Len(logs)) = logs
     /\ logs' # logs =>
          /\ Len(logs') = Len(logs) + 1
          /\ last'.cmd = "log"
          /\ replies'[1].kind = "log_ok"]_vars

C4_Witness ==
  /\ last.cmd = "status"
  /\ hist.logs0 # <<>>
  /\ Len(logs) = Len(hist.logs0) + 2
  /\ SubSeq(logs, 1, Len(hist.logs0)) = hist.logs0

C6_ListsSortedDistinctAndFiltered ==
  (last.cmd \in {"clients", "projects"} /\ ~last.failed) =>
    LET xs == last.result.items
        sheet == GetAllValues(summary)
        c == Strip(Join(<<" ">>, last.args))
    IN  /\ \A i \in 1..(Len(xs) - 1) : StrLess(xs[i], xs[i + 1])
        /\ \A i \in 1..Len(xs) : \A j \in 1..Len(xs) : i # j => xs[i] # xs[j]
        /\ \A i \in 1..Len(xs) : xs[i] # <<>>
        /\ last.cmd = "clients" =>
             \A i \in 1..Len(xs) : \E r \in 2..Len(sheet) :
               Len(sheet[r]) >= 1 /\ Strip(sheet[r][1]) = xs[i]
        /\ last.cmd = "projects" =>
             \A i \in 1..Len(xs) : \E r \in 2..Len(sheet) :
               /\ Len(sheet[r]) >= 2
               /\ SameName(sheet[r][1], c)
               /\ Strip(sheet[r][2]) = xs[i]

C6_Witness ==
  /\ last.cmd = "projects"
  /\ ~last.failed
  /\ last.result.items = << <<"p">> >>
  /\ \E r \in 2..Len(summary) :
       /\ Len(summary[r]) >= 2
       /\ summary[r][2] = <<"q">>
       /\ ~SameName(summary[r][1], Join(<<" ">>, last.args))

(***************************************************************************)
(* C7.  No list returned by list_all_clients or list_projects_for_client   *)
(* holds two entries that are equal after lower-casing.                    *)
(***************************************************************************)
C7_OptionsDistinctUnderCase ==
  (last.cmd \in {"clients", "projects"} /\ ~last.failed) =>
    LET xs == last.result.items
    IN  \A i \in 1..Len(xs) : \A j \in 1..Len(xs) :
          i # j => Lower(xs[i]) # Lower(xs[j])

(***************************************************************************)
(* C8.  compute_project_status raises nothing and returns no total and no  *)
(* percentage whenever no Summary row matches the pair or the matching     *)
(* row's Tasks cell is empty, non-numeric, zero or negative; it returns a  *)
(* percentage only when Tasks is a positive integer; /status then replies  *)
(* with one friendly text, not an error.                                   *)
(***************************************************************************)
C8_NotConfiguredWithoutError ==
  StatusAnswered =>
    LET hits == PairRows(summary, 3, 1, 2, QueryClient(last.args),
                         QueryProject(last.args))
        first == CHOOSE i \in hits : \A j \in hits : i <= j
        positive ==
          hits # {} /\ IsPositiveIntText(GetAllValues(summary)[first][3])
    IN  /\ ~last.raised
        /\ ~last.result.raised
        /\ last.result.percentage.some <=> positive
        /\ last.result.total.some <=> positive
        /\ positive => last.result.total.val > 0
        /\ Len(replies) = 1
        /\ replies[1].kind \in
             {"status_not_found", "status_tasks_not_set", "status_report"}
        /\ replies[1].kind = "status_report" <=> positive

C8_Witness ==
  /\ StatusAnswered
  /\ last.result.completed.some
  /\ ~last.result.total.some
  /\ ~last.result.percentage.some
  /\ Len(replies) = 1

(***************************************************************************)
(* C9.  When a store call fails while /log, /status, /clients or           *)
(* /projects is handled, the handler sends exactly one text, the error     *)
(* text of the command, sends no success or result message, and returns    *)
(* normally; the next command can be handled.                              *)
(***************************************************************************)
C9_StoreFailureOneErrorText ==
  last.failed =>
    /\ last.cmd \in {"log", "status", "clients", "projects"}
    /\ ~last.raised
    /\ Len(replies) = 1
    /\ replies[1].kind =
         (CASE last.cmd = "log" -> "log_store_error"
            [] last.cmd = "status" -> "status_store_error"
            [] last.cmd = "clients" -> "clients_store_error"
            [] last.cmd = "projects" -> "projects_store_error")
    /\ ENABLED Next

C9_Witness ==
  /\ last.failed
  /\ last.cmd = "status"
  /\ Len(replies) = 1
  /\ replies[1].kind = "status_store_error"
  /\ Len(logs) > Len(hist.logs0)

(***************************************************************************)
(* C10.  /status tells the two cases apart: with no matching Summary row   *)
(* it replies with the "couldn't find this client/project" guidance, and   *)
(* with a matching row whose Tasks value is empty, non-numeric, zero or    *)
(* negative it replies "Total tasks ... are not properly set".             *)
(***************************************************************************)
C10_StatusDistinguishesCases ==
  StatusAnswered =>
    LET hits == PairRows(summary, 3, 1, 2, QueryClient(last.args),
                         QueryProject(last.args))
        first == CHOOSE i \in hits : \A j \in hits : i <= j
    IN  /\ hits = {} => replies[1].kind = "status_not_found"
        /\ (hits # {} /\ ~IsPositiveIntText(GetAllValues(summary)[first][3]))
             => replies[1].kind = "status_tasks_not_set"

====
